---------------------------- MODULE Spec2Model ----------------------------
(***************************************************************************)
(* Model of the roster optimizer of fantasy-helper (src/optimize_roster.py).*)
(*                                                                         *)
(* main() either rebuilds a roster from scratch (optimize_roster) or, when *)
(* current_team.txt exists, proposes drops/adds for the current roster     *)
(* (optimize_team_changes).  Both build a 0/1 linear program with PuLP and *)
(* hand it to the solver.  The solver is an external collaborator: it is   *)
(* modelled by what it guarantees -- an optimal 0/1 assignment of the      *)
(* constraints it was given when one exists (any of them on a tie), and    *)
(* status Infeasible with unspecified variable values otherwise.           *)
(*                                                                         *)
(* Numbers are integers: salaries in cap units, projected values in        *)
(* points, value-per-salary in hundredths.                                 *)
(***************************************************************************)
EXTENDS Integers, Sequences, FiniteSets

VARIABLES
    pc,                 \* position of main(): start, rebuild, trade, report, done, error, crashed
    all_players,        \* rows of player_stats JOIN nba_salary_cap_players JOIN player_salary_stats
    team_file,          \* current_team.txt: whether it exists, and the names in it
    salary_cap,         \* --salary-cap
    transactions,       \* --transactions
    df,                 \* get_player_data() result (full-rebuild mode)
    current_roster,     \* load_current_team() result (trade mode)
    available_players,  \* candidate pool (trade mode)
    status,             \* prob.status after prob.solve()
    optimal_roster,     \* value returned by optimize_roster
    outcome,            \* what the caller can tell happened: none, roster, proposal, infeasible, error
    players_to_drop,    \* rows of current_roster printed under "Players to drop:"
    players_to_add,     \* rows of available_players printed under "Players to add:"
    drop_vars,          \* the rows of current_roster whose drop variable reads 1
    add_vars,           \* the rows of available_players whose add variable reads 1
    totals,             \* the printed totals before and after the changes
    solver,             \* what the installed solver does in this run: ok, stopped, unavailable
    rerun,              \* the run number of main and the roster the previous run returned
    calls,              \* two optimize_roster calls running in one process, and the solver's msg flag
    scrape,             \* scrape_nba_players: the table being cleaned and the loop over traded players
    config,             \* an optimize_roster call made with a RosterConstraints of the caller
    update,             \* incremental_update.py: player_game_logs, the website and the loop of get_latest_games
    calc                \* calc_fpts.py: clean_game_logs before and after calculate_fantasy_points

mainVars == <<pc, all_players, team_file, salary_cap, transactions, df, current_roster,
          available_players, status, optimal_roster, outcome, players_to_drop,
          players_to_add, drop_vars, add_vars, totals>>

vars == <<mainVars, solver, rerun, calls, scrape, config, update, calc>>

-----------------------------------------------------------------------------
(* Bounds of the model *)

\* at most this many of the ExtraPlayers rows are in the database besides the core ten
MaxExtras == 2

\* --transactions ranges over 0..MaxTransactions
MaxTransactions == 2

(* Program constants *)

\* optimize_roster: lpSum(player_vars) == 10; load_current_team: len(current_roster) != 10
ROSTER_SIZE == 10

\* optimize_team_changes: the literal 5 of both position constraints
TRADE_POSITION_REQ == 5

\* optimize_team_changes: the literal 2 of both per-team constraints
TRADE_MAX_PER_TEAM == 2

\* get_player_data: WHERE psr.Games_Last_30D >= 3
MIN_GAMES == 3

\* pulp.LpStatusOptimal and pulp.LpStatusInfeasible
LpStatusOptimal == 1

LpStatusInfeasible == -1

LpStatusNotSolved == 0

-----------------------------------------------------------------------------
(* Generic helpers *)

Range(s) == {s[i] : i \in DOMAIN s}

RECURSIVE SumTo(_, _)
\* sum of f[1..n] for a sequence of integers f
SumTo(f, n) == IF n = 0 THEN 0 ELSE f[n] + SumTo(f, n - 1)

SumSeq(f) == SumTo(f, Len(f))

\* Python: int(bool)
BoolToInt(b) == IF b THEN 1 ELSE 0

\* column of a table
Column(table, col) == [i \in DOMAIN table |-> table[i][col]]

\* current_team.txt: whether os.path.exists, and its stripped lines
TeamFile(names) == [exists |-> TRUE, names |-> names]

NoFile == [exists |-> FALSE, names |-> << >>]

-----------------------------------------------------------------------------
(* The data: position codes are sequences of characters, so that the       *)
(* regular expressions of the code are computed, not assumed.              *)

Player(name, pos, team, salary, fpts, games) ==
    [Player |-> name, Pos |-> pos, Team |-> team, salary |-> salary,
     avg_fpts |-> fpts, Games_Last_30D |-> games,
     value |-> IF salary = 0 THEN 0 ELSE (fpts * 100) \div salary]

\* ten players, five front court and five back court, two per team, total salary 100
CorePlayers ==
    << Player("Nikola Jokic", <<"C">>,      "DEN", 20, 12, 9),
       Player("F2",           <<"P","F">>,  "LAL", 12, 10, 9),
       Player("F3",           <<"S","F">>,  "BOS", 10,  9, 8),
       Player("F4",           <<"P","F">>,  "MIA",  8,  7, 7),
       Player("F5",           <<"C">>,      "PHX",  6,  4, 5),
       Player("G1",           <<"P","G">>,  "DEN", 14, 11, 9),
       Player("G2",           <<"S","G">>,  "LAL", 10,  9, 8),
       Player("G3",           <<"P","G">>,  "BOS",  8,  7, 6),
       Player("G4",           <<"S","G">>,  "MIA",  6,  5, 4),
       Player("G5",           <<"P","G">>,  "PHX",  6,  3, 3) >>

\* rows that may or may not be in the database:
\*  a second row of a traded player (nba_scraper.py keeps all rows of a player
\*  when the lookup of the last team fails), a third player of a core team,
\*  a guard of a new team, a player eligible at both positions, a player
\*  eligible at neither, a player with too few recent games
ExtraPlayers ==
    << Player("Nikola Jokic", <<"C">>,          "2TM", 20, 12, 9),
       Player("X1",           <<"P","F">>,      "DEN",  8, 15, 9),
       Player("X2",           <<"S","G">>,      "NYK", 12, 14, 9),
       Player("X3",           <<"F","-","G">>,  "NYK",  5,  9, 6),
       Player("X4",           << >>,            "NYK",  4,  6, 6),
       Player("X5",           <<"P","G">>,      "BOS",  3, 20, 1) >>

CoreNames == Column(CorePlayers, "Player")

\* the same file with the line of F5 missing
NamesWithoutF5 == SelectSeq(CoreNames, LAMBDA n : n # "F5")

\* the same file with the line of G5 missing
NamesWithoutG5 == SelectSeq(CoreNames, LAMBDA n : n # "G5")

TeamFiles ==
    {NoFile, TeamFile(CoreNames), TeamFile(NamesWithoutF5), TeamFile(NamesWithoutG5)}

SalaryCaps == {90, 100, 110}

Databases ==
    {CorePlayers \o SelectSeq(ExtraPlayers, LAMBDA r : r \in E) :
        E \in {X \in SUBSET Range(ExtraPlayers) : Cardinality(X) <= MaxExtras}}

-----------------------------------------------------------------------------
(* pandas *)

\* Series.str.contains of a single character
StrContains(pos, ch) == \E k \in DOMAIN pos : pos[k] = ch

\* df['Pos'].str.contains('F|C')
IsFrontCourt(pos) == StrContains(pos, "F") \/ StrContains(pos, "C")

\* df['Pos'].str.contains('G')
IsBackCourt(pos) == StrContains(pos, "G")

\* the two indicator columns added to a table read from the database
WithIndicators(table) ==
    [i \in DOMAIN table |->
        [Player |-> table[i].Player, Pos |-> table[i].Pos, Team |-> table[i].Team,
         salary |-> table[i].salary, avg_fpts |-> table[i].avg_fpts,
         Games_Last_30D |-> table[i].Games_Last_30D, value |-> table[i].value,
         is_front_court |-> IsFrontCourt(table[i].Pos),
         is_back_court |-> IsBackCourt(table[i].Pos)]]

RECURSIVE UniqueTo(_, _)
\* Series.unique(): the distinct values in order of first appearance
UniqueTo(s, n) ==
    IF n = 0 THEN << >>
    ELSE LET u == UniqueTo(s, n - 1)
         IN  IF s[n] \in Range(u) THEN u ELSE Append(u, s[n])

Unique(s) == UniqueTo(s, Len(s))

-----------------------------------------------------------------------------
(* PuLP: a problem over variables 1..n is an objective (a coefficient per  *)
(* variable) and a sequence of constraints  coef . x + const  sense  0     *)
(* written here as  coef . x  sense  rhs.  An assignment is the set of     *)
(* variables whose value is 1.                                             *)

RECURSIVE DotTo(_, _, _)
DotTo(coef, x, n) ==
    IF n = 0 THEN 0
    ELSE (IF n \in x THEN coef[n] ELSE 0) + DotTo(coef, x, n - 1)

\* value of an affine expression under assignment x
LpValue(coef, x) == DotTo(coef, x, Len(coef))

LpConstraintLE(coef, rhs) == [coef |-> coef, sense |-> "LE", rhs |-> rhs]

LpConstraintEQ(coef, rhs) == [coef |-> coef, sense |-> "EQ", rhs |-> rhs]

Satisfies(c, x) ==
    IF c.sense = "LE" THEN LpValue(c.coef, x) <= c.rhs
                      ELSE LpValue(c.coef, x) = c.rhs

LpFeasible(prob, x) == \A k \in 1..Len(prob.constraints) : Satisfies(prob.constraints[k], x)

LpFeasibleSet(prob) == {x \in SUBSET (1..prob.n) : LpFeasible(prob, x)}

\* the assignments a solve may leave in the variables when it proves nothing:
\* the values of an infeasible model are not meaningful, any rows may read as 1
UndefinedValues(n) == {1..k : k \in 0..n}

\* variant: the solve stops at the first feasible assignment it meets
LpSolve_AnyFeasible(prob) ==
    LET feas == LpFeasibleSet(prob)
    IN  IF feas = {}
        THEN {[status |-> LpStatusInfeasible, values |-> x] : x \in UndefinedValues(prob.n)}
        ELSE {[status |-> LpStatusOptimal, values |-> x] : x \in feas}

\* prob.solve(): the possible (status, values) results; a solve that is
\* stopped before it proves anything leaves the status "Not Solved"
LpSolve(prob) ==
    LET feas == LpFeasibleSet(prob)
    IN  IF solver = "stopped"
        THEN {[status |-> LpStatusNotSolved, values |-> x] : x \in UndefinedValues(prob.n)}
        ELSE IF feas = {}
        THEN {[status |-> LpStatusInfeasible, values |-> x] : x \in UndefinedValues(prob.n)}
        ELSE LET best == CHOOSE x \in feas :
                            \A y \in feas : LpValue(prob.objective, y) <= LpValue(prob.objective, x)
                 opt == LpValue(prob.objective, best)
             IN  {[status |-> LpStatusOptimal, values |-> x] :
                     x \in {y \in feas : LpValue(prob.objective, y) = opt}}

-----------------------------------------------------------------------------
(* Full-rebuild mode *)

\* RosterConstraints(): the defaults of the dataclass
RosterConstraints ==
    [salary_cap |-> 100, front_court_req |-> 5, back_court_req |-> 5, max_per_team |-> 2]

\* the rows of the three-table join that pass WHERE Games_Last_30D >= 3 AND salary > 0
get_player_data(db) ==
    WithIndicators(SelectSeq(db, LAMBDA r : r.Games_Last_30D >= MIN_GAMES /\ r.salary > 0))

\* variant: the objective sums the value-per-salary column
RosterObjective_ByValue(t) == Column(t, "value")

\* prob += lpSum(avg_fpts * player_vars)
RosterObjective(t) == Column(t, "avg_fpts")

\* variant: the cap of the constraints object is used, not the cap passed to the call
RosterSalaryConstraint_DefaultCap(t, cap) ==
    LpConstraintLE(Column(t, "salary"), RosterConstraints.salary_cap)

\* prob += lpSum(salary * player_vars) <= salary_cap
RosterSalaryConstraint(t, cap) == LpConstraintLE(Column(t, "salary"), cap)

\* prob += lpSum(player_vars) == 10
RosterSizeConstraint(t) == LpConstraintEQ([i \in DOMAIN t |-> 1], ROSTER_SIZE)

\* variant: the front-court quota is an upper limit
RosterFrontCourtConstraint_AtMost(t, constraints) ==
    LpConstraintLE([i \in DOMAIN t |-> BoolToInt(t[i].is_front_court)],
                   constraints.front_court_req)

\* prob += lpSum(player_vars * is_front_court) == constraints.front_court_req
RosterFrontCourtConstraint(t, constraints) ==
    LpConstraintEQ([i \in DOMAIN t |-> BoolToInt(t[i].is_front_court)],
                   constraints.front_court_req)

\* prob += lpSum(player_vars * is_back_court) == constraints.back_court_req
RosterBackCourtConstraint(t, constraints) ==
    LpConstraintEQ([i \in DOMAIN t |-> BoolToInt(t[i].is_back_court)],
                   constraints.back_court_req)

\* variant: the constraint is added after the loop, for its last team only
RosterTeamConstraints_LastTeamOnly(t, constraints) ==
    LET teams == Unique(Column(t, "Team"))
    IN  << LpConstraintLE([i \in DOMAIN t |-> BoolToInt(t[i].Team = teams[Len(teams)])],
                          constraints.max_per_team) >>

\* for team in df['Team'].unique(): prob += lpSum(team's player_vars) <= max_per_team
RosterTeamConstraints(t, constraints) ==
    LET teams == Unique(Column(t, "Team"))
    IN  [k \in 1..Len(teams) |->
            LpConstraintLE([i \in DOMAIN t |-> BoolToInt(t[i].Team = teams[k])],
                           constraints.max_per_team)]

\* the LpProblem "NBA_Fantasy_Roster" as it stands when prob.solve() is called
RosterProblem(t, cap, constraints) ==
    [n |-> Len(t),
     objective |-> RosterObjective(t),
     constraints |->
        << RosterSalaryConstraint(t, cap),
           RosterSizeConstraint(t),
           RosterFrontCourtConstraint(t, constraints),
           RosterBackCourtConstraint(t, constraints) >>
        \o RosterTeamConstraints(t, constraints)]

SelectedRow(r) ==
    [Player |-> r.Player, Position |-> r.Pos, Team |-> r.Team, Salary |-> r.salary,
     Avg_Fantasy_Points |-> r.avg_fpts, Value |-> r.value]

RECURSIVE SelectedTo(_, _, _)
SelectedTo(t, values, n) ==
    IF n = 0 THEN << >>
    ELSE LET rest == SelectedTo(t, values, n - 1)
         IN  IF n \in values THEN Append(rest, SelectedRow(t[n])) ELSE rest

\* the rows whose variable reads 1, in table order
get_selected_players(t, values) == SelectedTo(t, values, Len(t))

\* optimize_roster: the (status, returned table) pairs a call may produce;
\* the status is left in prob and is not part of what the caller gets
optimize_roster(t, cap, constraints) ==
    {[status |-> r.status, roster |-> get_selected_players(t, r.values)] :
        r \in LpSolve(RosterProblem(t, cap, constraints))}

-----------------------------------------------------------------------------
(* Trade mode *)

\* the rows of the three-table join WHERE ps.Player IN (the names of the file);
\* ValueError unless exactly 10 rows are found
load_current_team(db, file) ==
    LET found == SelectSeq(db, LAMBDA r : r.Player \in Range(file.names))
    IN  [raised |-> Len(found) # ROSTER_SIZE, current_roster |-> WithIndicators(found)]

\* variant: the rows are filtered by row label, all_players.index.isin(current_roster.index),
\* the labels of current_roster being those of its own query, 0..9
AvailablePlayers_ByIndex(db, roster) ==
    LET t == WithIndicators(SubSeq(db, Len(roster) + 1, Len(db)))
    IN  [i \in DOMAIN t |->
            [t[i] EXCEPT !.is_front_court = BoolToInt(t[i].is_front_court),
                         !.is_back_court = BoolToInt(t[i].is_back_court)]]

\* main: all_players[~all_players['Player'].isin(current_roster['Player'])] with
\* the indicator columns .astype(int)
AvailablePlayers(db, roster) ==
    LET t == WithIndicators(SelectSeq(db, LAMBDA r : r.Player \notin Range(Column(roster, "Player"))))
    IN  [i \in DOMAIN t |->
            [t[i] EXCEPT !.is_front_court = BoolToInt(t[i].is_front_court),
                         !.is_back_court = BoolToInt(t[i].is_back_court)]]

\* protected_players = ['Nikola Jokic']
protected_players == << "Nikola Jokic" >>

\* the variables of "NBA_Team_Changes": drop_vars of the roster rows, then add_vars
\* of the pool rows; an expression is its drop coefficients followed by its add ones
Zeros(t) == [i \in DOMAIN t |-> 0]

Ones(t) == [i \in DOMAIN t |-> 1]

Negated(f) == [i \in DOMAIN f |-> 0 - f[i]]

\* LpAffineExpression.__bool__: a constant other than 0, or at least one term
LpTruthy(c) == c.rhs # 0 \/ \E i \in DOMAIN c.coef : c.coef[i] # 0

\* Python's  a == b <= c : (a == b) and (b <= c), which is b <= c when a == b is truthy
ChainedComparison(a_eq_b, b_le_c) == IF LpTruthy(a_eq_b) THEN b_le_c ELSE a_eq_b

\* variant: the objective counts the points of the added players only
TradeObjective_AddsOnly(roster, pool) == Zeros(roster) \o Column(pool, "avg_fpts")

\* prob += add points - drop points
TradeObjective(roster, pool) ==
    Negated(Column(roster, "avg_fpts")) \o Column(pool, "avg_fpts")

\* prob += lpSum(drop_vars) <= transactions
TradeDropLimit(roster, pool, limit) == LpConstraintLE(Ones(roster) \o Zeros(pool), limit)

\* prob += lpSum(add_vars) <= transactions
TradeAddLimit(roster, pool, limit) == LpConstraintLE(Zeros(roster) \o Ones(pool), limit)

\* prob += lpSum(drop_vars) == lpSum(add_vars) <= transactions
TradeSameAmount(roster, pool, limit) ==
    ChainedComparison(LpConstraintEQ(Ones(roster) \o Negated(Ones(pool)), 0),
                      LpConstraintLE(Zeros(roster) \o Ones(pool), limit))

\* variant: the salaries of the current roster are left out of the total
TradeSalaryConstraint_DeltaOnly(roster, pool, cap) ==
    LpConstraintLE(Negated(Column(roster, "salary")) \o Column(pool, "salary"), cap)

\* prob += current salaries + added salaries - dropped salaries <= salary_cap
TradeSalaryConstraint(roster, pool, cap) ==
    LpConstraintLE(Negated(Column(roster, "salary")) \o Column(pool, "salary"),
                   cap - SumSeq(Column(roster, "salary")))

\* current_roster[current_roster['Player'] == player].index
PlayerIndex(roster, player) == SelectSeq([i \in DOMAIN roster |-> i], LAMBDA i : roster[i].Player = player)

\* for player in protected_players: if found, prob += drop_vars[player_index[0]] == 0
TradeProtectedConstraints(roster, pool) ==
    LET found == SelectSeq(protected_players, LAMBDA p : PlayerIndex(roster, p) # << >>)
    IN  [k \in DOMAIN found |->
            LpConstraintEQ([i \in DOMAIN roster |->
                               BoolToInt(i = PlayerIndex(roster, found[k])[1])] \o Zeros(pool),
                           0)]

\* variant: the dropped front-court players are not subtracted
TradeFrontCourtConstraint_DropsIgnored(roster, pool) ==
    LpConstraintEQ(
        Zeros(roster) \o [j \in DOMAIN pool |-> BoolToInt(pool[j].is_front_court # 0)],
        TRADE_POSITION_REQ
            - SumSeq([i \in DOMAIN roster |-> BoolToInt(roster[i].is_front_court)]))

\* prob += added front court + current_front_court_count - dropped front court == 5
TradeFrontCourtConstraint(roster, pool) ==
    LpConstraintEQ(
        [i \in DOMAIN roster |-> 0 - BoolToInt(roster[i].is_front_court)]
            \o [j \in DOMAIN pool |-> BoolToInt(pool[j].is_front_court # 0)],
        TRADE_POSITION_REQ
            - SumSeq([i \in DOMAIN roster |-> BoolToInt(roster[i].is_front_court)]))

\* prob += added back court + current_back_court_count - dropped back court == 5
TradeBackCourtConstraint(roster, pool) ==
    LpConstraintEQ(
        [i \in DOMAIN roster |-> 0 - BoolToInt(roster[i].is_back_court)]
            \o [j \in DOMAIN pool |-> BoolToInt(pool[j].is_back_court # 0)],
        TRADE_POSITION_REQ
            - SumSeq([i \in DOMAIN roster |-> BoolToInt(roster[i].is_back_court)]))

\* for team in available_players['Team'].unique():
\*     prob += lpSum(add_vars of the team) <= 2
\*     prob += lpSum(drop_vars of the team) <= 2
TradeTeamConstraints(roster, pool) ==
    LET teams == Unique(Column(pool, "Team"))
    IN  [k \in 1..(2 * Len(teams)) |->
            LET team == teams[(k + 1) \div 2]
            IN  IF k % 2 = 1
                THEN LpConstraintLE(Zeros(roster)
                                      \o [j \in DOMAIN pool |-> BoolToInt(pool[j].Team = team)],
                                    TRADE_MAX_PER_TEAM)
                ELSE LpConstraintLE([i \in DOMAIN roster |-> BoolToInt(roster[i].Team = team)]
                                      \o Zeros(pool),
                                    TRADE_MAX_PER_TEAM)]

\* the LpProblem "NBA_Team_Changes" as it stands when prob.solve() is called
TradeProblem(roster, pool, cap, limit) ==
    [n |-> Len(roster) + Len(pool),
     objective |-> TradeObjective(roster, pool),
     constraints |->
        << TradeDropLimit(roster, pool, limit),
           TradeAddLimit(roster, pool, limit),
           TradeSameAmount(roster, pool, limit),
           TradeSalaryConstraint(roster, pool, cap) >>
        \o TradeProtectedConstraints(roster, pool)
        \o << TradeFrontCourtConstraint(roster, pool),
              TradeBackCourtConstraint(roster, pool) >>
        \o TradeTeamConstraints(roster, pool)]

\* a printed line of the drop list or of the add list
TradeRow(r, front) ==
    [Player |-> r.Player, Position |-> IF front THEN "FC" ELSE "BC",
     Salary |-> r.salary, Avg_Fantasy_Points |-> r.avg_fpts, Value |-> r.value]

RECURSIVE DropRowsTo(_, _, _)
DropRowsTo(roster, values, n) ==
    IF n = 0 THEN << >>
    ELSE LET rest == DropRowsTo(roster, values, n - 1)
         IN  IF n \in values
             THEN Append(rest, TradeRow(roster[n], roster[n].is_front_court))
             ELSE rest

RECURSIVE AddRowsTo(_, _, _)
AddRowsTo(pool, values, n) ==
    IF n = 0 THEN << >>
    ELSE LET rest == AddRowsTo(pool, values, n - 1)
         IN  IF n \in values
             THEN Append(rest, TradeRow(pool[n], pool[n].is_front_court # 0))
             ELSE rest

NoTotals == [salary_before |-> 0, fpts_before |-> 0, salary_after |-> 0, fpts_after |-> 0]

\* total_salary_before, total_avg_fantasy_points_before and the two totals after
TradeTotals(roster, pool, drops, adds) ==
    LET sb == SumSeq(Column(roster, "salary"))
        fb == SumSeq(Column(roster, "avg_fpts"))
    IN  [salary_before |-> sb,
         fpts_before |-> fb,
         salary_after |-> sb - LpValue(Column(roster, "salary"), drops)
                             + LpValue(Column(pool, "salary"), adds),
         fpts_after |-> fb - LpValue(Column(roster, "avg_fpts"), drops)
                           + LpValue(Column(pool, "avg_fpts"), adds)]

\* variant: the drop and add variables are read whatever prob.status is
optimize_team_changes_StatusIgnored(roster, pool, cap, limit) ==
    {[status |-> r.status, infeasible |-> FALSE,
      drops |-> {i \in DOMAIN roster : i \in r.values},
      adds |-> {j \in DOMAIN pool : (Len(roster) + j) \in r.values}] :
        r \in LpSolve(TradeProblem(roster, pool, cap, limit))}

\* optimize_team_changes: what a call may print
optimize_team_changes(roster, pool, cap, limit) ==
    {IF r.status # LpStatusOptimal
     THEN [status |-> r.status, infeasible |-> TRUE, drops |-> {}, adds |-> {}]
     ELSE [status |-> r.status, infeasible |-> FALSE,
           drops |-> {i \in DOMAIN roster : i \in r.values},
           adds |-> {j \in DOMAIN pool : (Len(roster) + j) \in r.values}] :
        r \in LpSolve(TradeProblem(roster, pool, cap, limit))}

-----------------------------------------------------------------------------
(* main *)

\* argparse default of --transactions
DEFAULT_TRANSACTIONS == 2

\* the other parts of the model at rest
NoRerun == [run |-> 1, previous_roster |-> << >>]

\* pulp.LpSolverDefault.msg as PuLP creates it, and no call of the optimizer in progress
NoCalls == [msg |-> TRUE, call |-> << >>]

\* scrape_nba_players not called
NoScrape == [pc |-> "idle", source |-> << >>, df |-> << >>, players |-> << >>]

\* no call with a configuration of the caller
NoConfig == [pc |-> "idle", constraints |-> RosterConstraints, status |-> LpStatusNotSolved,
             roster |-> << >>, drops |-> {}, adds |-> {}]

\* incremental_update.py not started
NoUpdate == [pc |-> "idle", run |-> 0, known |-> {}, website |-> << >>, table |-> << >>,
             initial |-> << >>, before |-> << >>, remaining |-> << >>, count |-> 0,
             processed |-> << >>, returned |-> 0, failed |-> FALSE, prev_failed |-> FALSE,
             changed |-> FALSE, same_data |-> FALSE]

\* calc_fpts.py not started
NoCalc == [pc |-> "idle", run |-> 0, table |-> << >>, before |-> << >>]

\* the other scripts of the repository are not running
ScriptsIdle == config = NoConfig /\ update = NoUpdate /\ calc = NoCalc

\* the state at the start of main, whatever the solver will do
InitInputs ==
    /\ ScriptsIdle
    /\ rerun = NoRerun
    /\ calls = NoCalls
    /\ scrape = NoScrape
    /\ pc = "start"
    /\ all_players \in Databases
    /\ team_file \in TeamFiles
    /\ salary_cap \in SalaryCaps
    /\ transactions \in (IF ~team_file.exists THEN {DEFAULT_TRANSACTIONS}
                                               ELSE 0..MaxTransactions)
    /\ df = << >>
    /\ current_roster = << >>
    /\ available_players = << >>
    /\ status = LpStatusNotSolved
    /\ optimal_roster = << >>
    /\ outcome = "none"
    /\ players_to_drop = << >>
    /\ players_to_add = << >>
    /\ drop_vars = {}
    /\ add_vars = {}
    /\ totals = NoTotals

Init == solver = "ok" /\ InitInputs

\* variant: the table is read whether or not current_team.txt exists
MainGetPlayerData_AnyMode ==
    /\ UNCHANGED <<solver, rerun, calls, scrape, config, update, calc>>
    /\ pc = "start"
    /\ df' = get_player_data(all_players)
    /\ pc' = "rebuild"
    /\ UNCHANGED <<all_players, team_file, salary_cap, transactions, current_roster,
                   available_players, status, optimal_roster, outcome, players_to_drop,
                   players_to_add, drop_vars, add_vars, totals>>

\* main, no current_team.txt: df = get_player_data()
MainGetPlayerData ==
    /\ UNCHANGED <<solver, rerun, calls, scrape, config, update, calc>>
    /\ pc = "start"
    /\ ~team_file.exists
    /\ df' = get_player_data(all_players)
    /\ pc' = "rebuild"
    /\ UNCHANGED <<all_players, team_file, salary_cap, transactions, current_roster,
                   available_players, status, optimal_roster, outcome, players_to_drop,
                   players_to_add, drop_vars, add_vars, totals>>

\* variant: the selected rows are removed from df in place
MainOptimizeRoster_InPlace ==
    /\ UNCHANGED <<solver, rerun, calls, scrape, config, update, calc>>
    /\ pc = "rebuild"
    /\ \E r \in optimize_roster(df, salary_cap, RosterConstraints) :
          /\ status' = r.status
          /\ optimal_roster' = r.roster
          /\ df' = SelectSeq(df, LAMBDA row : row.Player \notin Range(Column(r.roster, "Player")))
    /\ outcome' = "roster"
    /\ pc' = "report"
    /\ UNCHANGED <<all_players, team_file, salary_cap, transactions, current_roster,
                   available_players, players_to_drop, players_to_add, drop_vars, add_vars, totals>>

\* main: optimal_roster = optimize_roster(df, salary_cap=salary_cap, debug_flag=debug_flag)
MainOptimizeRoster ==
    /\ UNCHANGED <<solver, rerun, calls, scrape, config, update, calc>>
    /\ pc = "rebuild"
    /\ IF solver = "unavailable"
       THEN /\ pc' = "crashed"
            /\ outcome' = "solver_error"
            /\ UNCHANGED <<status, optimal_roster>>
       ELSE /\ \E r \in optimize_roster(df, salary_cap, RosterConstraints) :
                  /\ status' = r.status
                  /\ optimal_roster' = r.roster
            /\ outcome' = "roster"
            /\ pc' = "report"
    /\ UNCHANGED <<all_players, team_file, salary_cap, transactions, df, current_roster,
                   available_players, players_to_drop, players_to_add, drop_vars, add_vars, totals>>

\* main: print the roster and its totals; a table built from no rows has no
\* 'Avg_Fantasy_Points' column and sort_values raises KeyError
MainReport ==
    /\ UNCHANGED <<solver, rerun, calls, scrape, config, update, calc>>
    /\ pc = "report"
    /\ IF optimal_roster = << >>
       THEN pc' = "crashed" /\ outcome' = "error"
       ELSE pc' = "done" /\ UNCHANGED outcome
    /\ UNCHANGED <<all_players, team_file, salary_cap, transactions, df, current_roster,
                   available_players, status, optimal_roster, players_to_drop,
                   players_to_add, drop_vars, add_vars, totals>>

\* main, current_team.txt exists: load_current_team, then the candidate pool
MainLoadCurrentTeam ==
    /\ UNCHANGED <<solver, rerun, calls, scrape, config, update, calc>>
    /\ pc = "start"
    /\ team_file.exists
    /\ LET loaded == load_current_team(all_players, team_file)
       IN  IF loaded.raised
           THEN /\ pc' = "error"
                /\ outcome' = "error"
                /\ UNCHANGED <<current_roster, available_players>>
           ELSE /\ pc' = "trade"
                /\ current_roster' = loaded.current_roster
                /\ available_players' = AvailablePlayers(all_players, loaded.current_roster)
                /\ UNCHANGED outcome
    /\ UNCHANGED <<all_players, team_file, salary_cap, transactions, df, status,
                   optimal_roster, players_to_drop, players_to_add, drop_vars, add_vars,
                   totals>>

\* main: optimize_team_changes(current_roster, available_players, salary_cap, transactions)
MainOptimizeTeamChanges ==
    /\ UNCHANGED <<solver, rerun, calls, scrape, config, update, calc>>
    /\ pc = "trade"
    /\ IF solver = "unavailable"
       THEN /\ pc' = "crashed"
            /\ outcome' = "solver_error"
            /\ UNCHANGED <<status, players_to_drop, players_to_add, drop_vars, add_vars, totals>>
       ELSE /\ \E r \in optimize_team_changes(current_roster, available_players,
                                               salary_cap, transactions) :
                  /\ status' = r.status
                  /\ IF r.infeasible
                     THEN /\ outcome' = "infeasible"
                          /\ UNCHANGED <<players_to_drop, players_to_add, drop_vars,
                                         add_vars, totals>>
                     ELSE /\ outcome' = "proposal"
                          /\ drop_vars' = r.drops
                          /\ add_vars' = r.adds
                          /\ players_to_drop' =
                                DropRowsTo(current_roster, r.drops, Len(current_roster))
                          /\ players_to_add' =
                                AddRowsTo(available_players, r.adds, Len(available_players))
                          /\ totals' =
                                TradeTotals(current_roster, available_players, r.drops, r.adds)
            /\ pc' = "done"
    /\ UNCHANGED <<all_players, team_file, salary_cap, transactions, df, current_roster,
                   available_players, optimal_roster>>

Next ==
    \/ MainGetPlayerData
    \/ MainOptimizeRoster
    \/ MainReport
    \/ MainLoadCurrentTeam
    \/ MainOptimizeTeamChanges

Spec == Init /\ [][Next]_vars

-----------------------------------------------------------------------------
(* The program run where the solver fails: the solver executable is missing
   (PuLP raises PulpSolverError from prob.solve()), or the solve is stopped
   and ends with the status "Not Solved" *)

InitSolverFailure == solver \in {"unavailable", "stopped"} /\ InitInputs

SpecSolverFailure == InitSolverFailure /\ [][Next]_vars

-----------------------------------------------------------------------------
(* Two calls of optimize_roster on one dataset from two threads of one
   process, as when several salary-cap scenarios are evaluated at once *)

\* main not started, on database db
MainIdle(db) ==
    /\ pc = "start"
    /\ all_players = db
    /\ team_file = NoFile
    /\ salary_cap = RosterConstraints.salary_cap
    /\ transactions = DEFAULT_TRANSACTIONS
    /\ df = << >>
    /\ current_roster = << >>
    /\ available_players = << >>
    /\ status = LpStatusNotSolved
    /\ optimal_roster = << >>
    /\ outcome = "none"
    /\ players_to_drop = << >>
    /\ players_to_add = << >>
    /\ drop_vars = {}
    /\ add_vars = {}
    /\ totals = NoTotals

\* a call whose model is built (lines 58-73, all of it local to the call)
Call(cap, debug_flag) ==
    [pc |-> "built", salary_cap |-> cap, debug_flag |-> debug_flag,
     verbosity |-> << >>, status |-> LpStatusNotSolved, roster |-> << >>]

\* the caps of the scenarios evaluated together
CallCaps == {c \in SalaryCaps : c >= RosterConstraints.salary_cap}

InitCalls ==
    /\ ScriptsIdle
    /\ solver = "ok"
    /\ rerun = NoRerun
    /\ scrape = NoScrape
    /\ \E db \in {d \in Databases : Len(d) <= Len(CorePlayers) + 1} : MainIdle(db)
    /\ \E c1, c2 \in CallCaps, f1, f2 \in BOOLEAN :
          /\ c1 # c2 \/ f1 # f2
          /\ calls = [msg |-> NoCalls.msg, call |-> <<Call(c1, f1), Call(c2, f2)>>]

\* line 75 in call k: pulp.LpSolverDefault.msg = debug_flag, an attribute of
\* the one default solver object of the process
CallSetMsg(k) ==
    /\ calls.call[k].pc = "built"
    /\ calls' = [msg |-> calls.call[k].debug_flag,
                 call |-> [calls.call EXCEPT ![k].pc = "msg_set"]]
    /\ UNCHANGED <<mainVars, solver, rerun, scrape, config, update, calc>>

\* lines 76-77 in call k: prob.solve() runs the default solver with the msg
\* it has now; the selected rows are returned
CallSolve(k) ==
    /\ calls.call[k].pc = "msg_set"
    /\ \E r \in optimize_roster(get_player_data(all_players), calls.call[k].salary_cap,
                                 RosterConstraints) :
          calls' = [calls EXCEPT !.call[k].pc = "returned",
                                 !.call[k].verbosity = <<calls.msg>>,
                                 !.call[k].status = r.status,
                                 !.call[k].roster = r.roster]
    /\ UNCHANGED <<mainVars, solver, rerun, scrape, config, update, calc>>

NextCalls == \E k \in {1, 2} : CallSetMsg(k) \/ CallSolve(k)

SpecCalls == InitCalls /\ [][NextCalls]_vars

-----------------------------------------------------------------------------
(* nba_scraper.py: scrape_nba_players and the save to player_stats.  A row
   is a player name, a team code (a sequence of characters) and a games count. *)

\* players in the scraped table
MaxScraped == 3

StatsRow(name, team, games) == [Player |-> name, Team |-> team, G |-> games]

TM2 == <<"2", "T", "M">>

LAL == <<"L", "A", "L">>

BOS == <<"B", "O", "S">>

\* get_last_team_from_logs returns None on any exception
None == << >>

\* the rows the per-game table lists for one name: a player of one team; a
\* traded player, the combined row first and then a row per team; two rows of
\* one normalized name and no combined row
SourceRows(name, shape) ==
    CASE shape = "single" -> <<StatsRow(name, LAL, 40)>>
      [] shape = "traded" -> <<StatsRow(name, TM2, 40), StatsRow(name, LAL, 25),
                               StatsRow(name, BOS, 15)>>
      [] shape = "namesake" -> <<StatsRow(name, LAL, 30), StatsRow(name, BOS, 20)>>

ScrapedNames == <<"P1", "P2", "P3", "P4">>

RECURSIVE SourceTable(_, _)
\* the table of the first n names, shapes[k] being the shape of name k
SourceTable(shapes, n) ==
    IF n = 0 THEN << >>
    ELSE SourceTable(shapes, n - 1) \o SourceRows(ScrapedNames[n], shapes[n])

SourceTables ==
    {SourceTable(shapes, n) :
        shapes \in [1..MaxScraped -> {"single", "traded", "namesake"}], n \in 1..MaxScraped}

\* Series.str.contains('TM', na=False)
StrContainsTM(team) == \E k \in 1..(Len(team) - 1) : team[k] = "T" /\ team[k + 1] = "M"

\* df[df.duplicated(['Player'], keep=False)]['Player'].unique()
players_with_multiple_teams(table) ==
    Unique(Column(SelectSeq(table, LAMBDA r :
                        Cardinality({i \in DOMAIN table : table[i].Player = r.Player}) > 1),
                  "Player"))

\* the teams the game log of a player may end with
LastTeams == {LAL, BOS}

InitScrape ==
    /\ ScriptsIdle
    /\ solver = "ok"
    /\ rerun = NoRerun
    /\ calls = NoCalls
    /\ MainIdle(CorePlayers)
    /\ \E t \in SourceTables :
          scrape = [pc |-> "table", source |-> t, df |-> t, players |-> << >>]

\* line 73: the names listed more than once
ScrapeFindTraded ==
    /\ scrape.pc = "table"
    /\ scrape' = [scrape EXCEPT !.pc = "loop",
                                !.players = players_with_multiple_teams(scrape.df)]
    /\ UNCHANGED <<mainVars, solver, rerun, calls, config, update, calc>>

\* lines 76-103: one pass of the loop over players_with_multiple_teams
ScrapeHandlePlayer ==
    /\ scrape.pc = "loop"
    /\ scrape.players # << >>
    /\ LET player == Head(scrape.players)
           player_rows == SelectSeq(scrape.df, LAMBDA r : r.Player = player)
           multi == SelectSeq(player_rows, LAMBDA r : StrContainsTM(r.Team))
       IN  IF multi # << >>
           THEN \E last_team \in LastTeams \cup {None} :
                   IF last_team # None
                   THEN scrape' = [scrape EXCEPT
                            !.players = Tail(scrape.players),
                            !.df = Append(SelectSeq(scrape.df, LAMBDA r : r.Player # player),
                                          [multi[1] EXCEPT !.Team = last_team])]
                   ELSE scrape' = [scrape EXCEPT !.players = Tail(scrape.players)]
           ELSE scrape' = [scrape EXCEPT !.players = Tail(scrape.players)]
    /\ UNCHANGED <<mainVars, solver, rerun, calls, config, update, calc>>

\* the loop is over: the table is returned and save_to_database writes it to
\* player_stats with if_exists='replace'
ScrapeSave ==
    /\ scrape.pc = "loop"
    /\ scrape.players = << >>
    /\ scrape' = [scrape EXCEPT !.pc = "saved"]
    /\ UNCHANGED <<mainVars, solver, rerun, calls, config, update, calc>>

NextScrape ==
    \/ ScrapeFindTraded
    \/ ScrapeHandlePlayer
    \/ ScrapeSave

SpecScrape == InitScrape /\ [][NextScrape]_vars

-----------------------------------------------------------------------------
(* Trade mode on a roster one of whose players has changed team since the
   roster was chosen: G4 now plays for PHX, as F5 and G5 do *)

\* the largest --transactions given on the command line
MaxTeamTransactions == 3

\* pool rows in the database
MaxPool == 3

MovedRoster == [CorePlayers EXCEPT ![9] = Player("G4", <<"S","G">>, "PHX", 6, 5, 4)]

\* the roster and at most MaxPool other players, none of them a second row
MovedDatabases ==
    {MovedRoster \o SelectSeq(Tail(ExtraPlayers), LAMBDA r : r \in E) :
        E \in {X \in SUBSET Range(Tail(ExtraPlayers)) : Cardinality(X) <= MaxPool}}

InitMoved ==
    /\ ScriptsIdle
    /\ solver = "ok"
    /\ rerun = NoRerun
    /\ calls = NoCalls
    /\ scrape = NoScrape
    /\ pc = "start"
    /\ all_players \in MovedDatabases
    /\ team_file = TeamFile(CoreNames)
    /\ salary_cap \in CallCaps
    /\ transactions \in 0..MaxTeamTransactions
    /\ df = << >>
    /\ current_roster = << >>
    /\ available_players = << >>
    /\ status = LpStatusNotSolved
    /\ optimal_roster = << >>
    /\ outcome = "none"
    /\ players_to_drop = << >>
    /\ players_to_add = << >>
    /\ drop_vars = {}
    /\ add_vars = {}
    /\ totals = NoTotals

NextTrade ==
    \/ MainLoadCurrentTeam
    \/ MainOptimizeTeamChanges

SpecMoved == InitMoved /\ [][NextTrade]_vars

-----------------------------------------------------------------------------
(* A caller with a configuration of its own: it builds a RosterConstraints
   and calls the optimizer of the mode it is in *)

\* RosterConstraints(salary_cap=.., front_court_req=.., back_court_req=.., max_per_team=..)
Configurations ==
    {[salary_cap |-> c, front_court_req |-> f, back_court_req |-> ROSTER_SIZE - f,
      max_per_team |-> m] :
        c \in SalaryCaps,
        f \in {RosterConstraints.front_court_req - 1, RosterConstraints.front_court_req},
        m \in {RosterConstraints.max_per_team, RosterConstraints.max_per_team + 1}}

\* the roster and the pool of the caller in trade mode
ConfiguredRoster == load_current_team(all_players, TeamFile(CoreNames)).current_roster

ConfiguredPool == AvailablePlayers(all_players, ConfiguredRoster)

InitConfigured ==
    /\ solver = "ok"
    /\ rerun = NoRerun
    /\ calls = NoCalls
    /\ scrape = NoScrape
    /\ update = NoUpdate
    /\ calc = NoCalc
    /\ \E db \in {d \in Databases : Len(d) <= Len(CorePlayers) + 1} : MainIdle(db)
    /\ \E c \in Configurations : config = [NoConfig EXCEPT !.pc = "built", !.constraints = c]

\* optimize_roster(df, constraints=constraints): salary_cap is a parameter of
\* its own (line 53) and keeps its default, the cap of the default RosterConstraints
ConfiguredOptimizeRoster ==
    /\ config.pc = "built"
    /\ \E r \in optimize_roster(get_player_data(all_players), RosterConstraints.salary_cap,
                                 config.constraints) :
          config' = [config EXCEPT !.pc = "roster_returned", !.status = r.status,
                                   !.roster = r.roster]
    /\ UNCHANGED <<mainVars, solver, rerun, calls, scrape, update, calc>>

\* optimize_team_changes(current_roster, available_players): the function
\* has no parameter that takes a RosterConstraints (line 132)
ConfiguredOptimizeTeamChanges ==
    /\ config.pc = "built"
    /\ \E r \in optimize_team_changes(ConfiguredRoster, ConfiguredPool,
                                       RosterConstraints.salary_cap, DEFAULT_TRANSACTIONS) :
          config' = [config EXCEPT !.pc = IF r.infeasible THEN "trade_infeasible"
                                                          ELSE "trade_returned",
                                   !.status = r.status, !.drops = r.drops, !.adds = r.adds]
    /\ UNCHANGED <<mainVars, solver, rerun, calls, scrape, update, calc>>

NextConfigured ==
    \/ ConfiguredOptimizeRoster
    \/ ConfiguredOptimizeTeamChanges

SpecConfigured == InitConfigured /\ [][NextConfigured]_vars

-----------------------------------------------------------------------------
(* incremental_update.py: get_latest_games run again and again while the
   website lists more games.  A cell that may be empty (NaN, NULL) is a
   sequence of at most one value. *)

\* games of a player the website lists at most
MaxGames == 2

\* runs of get_latest_games in one behaviour
MaxUpdateRuns == 2

NaN == << >>

Cell(v) == <<v>>

notna(cell) == cell # NaN

\* player_urls, in the order the loop takes them
PlayerUrls == <<"/players/a.html", "/players/b.html", "/players/c.html">>

\* the rows of a game-log page: a repeated header row, the games played and
\* a game the player sat out (a rank, no game number)
GameRow(url, g) == [player_url |-> url, Rk |-> Cell(g), G |-> Cell(g), Date |-> "2025"]

HeaderRow(url) == [player_url |-> url, Rk |-> NaN, G |-> NaN, Date |-> "Date"]

InactiveRow(url, rk) == [player_url |-> url, Rk |-> Cell(rk), G |-> NaN, Date |-> "2025"]

WebPage(url, n) ==
    <<HeaderRow(url)>> \o [g \in 1..n |-> GameRow(url, g)] \o <<InactiveRow(url, n + 1)>>

\* nba_scraper.scrape_player_game_log, when it does not fail: header and
\* separator rows are removed
scrape_player_game_log(url, n) ==
    SelectSeq(WebPage(url, n), LAMBDA r : r.Date # "Date" /\ notna(r.Rk))

\* lines 55-57
CleanCurrentGames(current_games) ==
    SelectSeq(current_games, LAMBDA r : notna(r.G) /\ notna(r.Rk) /\ r.Date # "Date")

\* pd.to_numeric(column, errors='coerce') of one cell, dropna() and astype(int) for a set
ExistingGameNumbers(table, url) ==
    {r.G[1] : r \in {x \in Range(table) : x.player_url = url /\ notna(x.G)}}

\* variant: the existing games are looked up without the player's url bound
NewGames_NoneExisting(table, url, current_games) == current_games

\* line 67: current_games[~current_game_numbers.isin(existing_game_numbers)]
NewGames(table, url, current_games) ==
    SelectSeq(current_games, LAMBDA r : r.G[1] \notin ExistingGameNumbers(table, url))

\* variant: new_games_count += len(current_games)
CountAdded_Current(current_games, new_games) == Len(current_games)

\* line 73: new_games_count += len(new_games)
CountAdded(current_games, new_games) == Len(new_games)

\* the loop goes on to the next url
NextPlayer(u) ==
    [u EXCEPT !.remaining = Tail(u.remaining), !.processed = Append(@, Head(u.remaining))]

\* variant: the exception of one player leaves the function
AfterFailure_Raises(u) == [u EXCEPT !.pc = "raised", !.failed = TRUE]

\* lines 51-52 and 82-84: continue with the next url
AfterFailure(u) == [NextPlayer(u) EXCEPT !.failed = TRUE]

\* player_game_logs with the first k[url] games of every player stored
RECURSIVE StoredTo(_, _)
StoredTo(k, n) ==
    IF n = 0 THEN << >>
    ELSE StoredTo(k, n - 1) \o [g \in 1..k[PlayerUrls[n]] |-> GameRow(PlayerUrls[n], g)]

InitUpdate ==
    /\ solver = "ok"
    /\ rerun = NoRerun
    /\ calls = NoCalls
    /\ scrape = NoScrape
    /\ config = NoConfig
    /\ calc = NoCalc
    /\ MainIdle(CorePlayers)
    /\ \E known \in {Range(PlayerUrls), Range(PlayerUrls) \ {PlayerUrls[3]}},
          web \in [Range(PlayerUrls) -> 0..MaxGames],
          stored \in BOOLEAN :
          LET k == [url \in Range(PlayerUrls) |->
                      IF stored /\ web[url] > 0 THEN 1 ELSE 0]
          IN  update = [NoUpdate EXCEPT !.pc = "start", !.known = known, !.website = web,
                                       !.table = StoredTo(k, Len(PlayerUrls)),
                                       !.initial = StoredTo(k, Len(PlayerUrls))]

\* the website lists one more game of a player, between two runs
WebsiteGrows ==
    /\ update.pc = "returned"
    /\ update.run < MaxUpdateRuns
    /\ \E url \in Range(PlayerUrls) :
          /\ update.website[url] < MaxGames
          /\ update' = [update EXCEPT !.website[url] = @ + 1, !.changed = TRUE]
    /\ UNCHANGED <<mainVars, solver, rerun, calls, scrape, config, calc>>

\* get_latest_games is called: new_games_count = 0
UpdateStart ==
    /\ update.pc \in {"start", "returned"}
    /\ update.run < MaxUpdateRuns
    /\ update' = [update EXCEPT !.pc = "loop", !.run = @ + 1, !.remaining = PlayerUrls,
                                !.processed = << >>, !.before = update.table, !.count = 0,
                                !.prev_failed = update.failed, !.failed = FALSE,
                                !.same_data = (update.pc = "returned" /\ ~update.changed),
                                !.changed = FALSE]
    /\ UNCHANGED <<mainVars, solver, rerun, calls, scrape, config, calc>>

\* lines 22-84: one pass of the loop
UpdatePlayer ==
    /\ update.pc = "loop"
    /\ update.remaining # << >>
    /\ LET url == Head(update.remaining)
           next == NextPlayer(update)
       IN  IF url \notin update.known
           THEN update' = next
           ELSE \E result \in {"scraped", "scrape failed", "exception"} :
                   IF result # "scraped"
                   THEN update' = AfterFailure(update)
                   ELSE LET scraped == scrape_player_game_log(url, update.website[url])
                            current_games == CleanCurrentGames(scraped)
                            new_games == NewGames(update.table, url, current_games)
                        IN  IF scraped = << >> \/ new_games = << >>
                            THEN update' = next
                            ELSE update' = [next EXCEPT !.table = @ \o new_games,
                                                        !.count = @ + CountAdded(current_games,
                                                                                 new_games)]
    /\ UNCHANGED <<mainVars, solver, rerun, calls, scrape, config, calc>>

\* line 87: return new_games_count
UpdateReturn ==
    /\ update.pc = "loop"
    /\ update.remaining = << >>
    /\ update' = [update EXCEPT !.pc = "returned", !.returned = update.count]
    /\ UNCHANGED <<mainVars, solver, rerun, calls, scrape, config, calc>>

NextUpdate ==
    \/ WebsiteGrows
    \/ UpdateStart
    \/ UpdatePlayer
    \/ UpdateReturn

SpecUpdate == InitUpdate /\ [][NextUpdate]_vars

-----------------------------------------------------------------------------
(* calc_fpts.py: calculate_fantasy_points on the table clean_game_logs *)

\* rows of clean_game_logs in one database
MaxLogRows == 3

\* runs of calculate_fantasy_points in one behaviour
MaxCalcRuns == 3

\* the box score of a game: the columns the two formulas read (P3 is the
\* column '3P'); a cell that to_numeric could not convert is NaN
StatLine(p3, fg, fga, ft, fta, trb, ast, stl, blk, tov, pts) ==
    [P3 |-> p3, FG |-> fg, FGA |-> fga, FT |-> ft, FTA |-> fta, TRB |-> trb,
     AST |-> ast, STL |-> stl, BLK |-> blk, TOV |-> tov, PTS |-> pts]

StatLines == <<
    StatLine(Cell(2), Cell(8), Cell(15), Cell(4), Cell(5), Cell(7), Cell(6),
             Cell(1), Cell(2), Cell(3), Cell(22)),
    StatLine(Cell(0), Cell(3), Cell(9), Cell(1), Cell(2), Cell(11), Cell(1),
             Cell(0), Cell(3), Cell(1), Cell(7)),
    StatLine(Cell(1), Cell(5), Cell(10), Cell(2), Cell(2), Cell(4), Cell(9),
             Cell(2), Cell(0), Cell(4), NaN)>>

\* a game the player sat out: no game number and no statistics
DidNotPlay == StatLine(NaN, NaN, NaN, NaN, NaN, NaN, NaN, NaN, NaN, NaN, NaN)

\* a row of clean_game_logs as clean_player_game_logs writes it: the table is
\* replaced, so the fantasy columns are absent and read as NULL once
\* ensure_fantasy_columns_exist has added them
CleanRow(url, g, stats) ==
    [player_url |-> url, G |-> g, stats |-> stats,
     espn_fpts |-> NaN, nba_salary_cap_fpts |-> NaN]

\* the rows a database may hold: games of two players, one game stored twice
\* with different box scores, and a game not played
LogRows ==
    {CleanRow(PlayerUrls[1], Cell(1), StatLines[1]),
     CleanRow(PlayerUrls[1], Cell(1), StatLines[2]),
     CleanRow(PlayerUrls[1], Cell(2), StatLines[3]),
     CleanRow(PlayerUrls[1], NaN, DidNotPlay),
     CleanRow(PlayerUrls[2], Cell(1), StatLines[2]),
     CleanRow(PlayerUrls[2], Cell(2), StatLines[1])}

\* WHERE espn_fpts IS NULL OR nba_salary_cap_fpts IS NULL
LacksFantasyPoints(row) == row.espn_fpts = NaN \/ row.nba_salary_cap_fpts = NaN

\* lines 46-57; arithmetic on a NaN cell gives NaN
espn_fpts(st) ==
    IF \E c \in {st.P3, st.FGA, st.FG, st.FTA, st.FT, st.TRB, st.AST, st.STL,
                 st.BLK, st.TOV} : c = NaN
    THEN NaN
    ELSE Cell(st.P3[1] - st.FGA[1] + 2 * st.FG[1] - st.FTA[1] + st.FT[1]
              + st.TRB[1] + 2 * st.AST[1] + 4 * st.STL[1] + 4 * st.BLK[1]
              - 2 * st.TOV[1])

\* lines 60-67, in tenths of a point (the weights are 1, 1.2, 1.5, 3, 3, -1)
nba_salary_cap_fpts(st) ==
    IF \E c \in {st.PTS, st.TRB, st.AST, st.BLK, st.STL, st.TOV} : c = NaN
    THEN NaN
    ELSE Cell(10 * st.PTS[1] + 12 * st.TRB[1] + 15 * st.AST[1] + 30 * st.BLK[1]
              + 30 * st.STL[1] - 10 * st.TOV[1])

UpdateMatches_EitherColumn(stored, row) ==
    \/ stored.player_url = row.player_url
    \/ notna(row.G) /\ stored.G = row.G

\* WHERE player_url = ? AND G = ?  (a NULL never equals anything)
UpdateMatches(stored, row) ==
    /\ stored.player_url = row.player_url
    /\ notna(row.G)
    /\ stored.G = row.G

\* one UPDATE clean_game_logs SET espn_fpts = ?, nba_salary_cap_fpts = ?
UpdateQuery(table, row) ==
    [i \in DOMAIN table |->
        IF UpdateMatches(table[i], row)
        THEN [table[i] EXCEPT !.espn_fpts = espn_fpts(row.stats),
                              !.nba_salary_cap_fpts = nba_salary_cap_fpts(row.stats)]
        ELSE table[i]]

\* lines 70-81: the UPDATE of every selected row, in iterrows order
RECURSIVE UpdateRows(_, _)
UpdateRows(table, selected) ==
    IF selected = << >> THEN table
    ELSE UpdateRows(UpdateQuery(table, Head(selected)), Tail(selected))

InitCalc ==
    /\ solver = "ok"
    /\ rerun = NoRerun
    /\ calls = NoCalls
    /\ scrape = NoScrape
    /\ config = NoConfig
    /\ update = NoUpdate
    /\ MainIdle(CorePlayers)
    /\ \E n \in 1..MaxLogRows : \E table \in [1..n -> LogRows] :
          calc = [NoCalc EXCEPT !.pc = "cleaned", !.table = table, !.before = table]

\* calculate_fantasy_points, the whole call
CalculateFantasyPoints ==
    /\ calc.pc \in {"cleaned", "calculated"}
    /\ calc.run < MaxCalcRuns
    /\ LET selected == SelectSeq(calc.table, LacksFantasyPoints)
       IN  calc' = [calc EXCEPT !.pc = "calculated", !.run = @ + 1,
                                !.before = calc.table,
                                !.table = IF selected = << >> THEN calc.table
                                          ELSE UpdateRows(calc.table, selected)]
    /\ UNCHANGED <<mainVars, solver, rerun, calls, scrape, config, update>>

\* post_scraper.clean_player_game_logs: to_sql(if_exists='replace') writes the
\* table anew from player_game_logs, without the fantasy columns
CleanPlayerGameLogs ==
    /\ calc.pc = "calculated"
    /\ calc.run < MaxCalcRuns
    /\ calc' = [calc EXCEPT !.pc = "cleaned",
                            !.table = [i \in DOMAIN calc.table |->
                                          CleanRow(calc.table[i].player_url,
                                                   calc.table[i].G,
                                                   calc.table[i].stats)],
                            !.before = calc.table]
    /\ UNCHANGED <<mainVars, solver, rerun, calls, scrape, config, update>>

NextCalc ==
    \/ CalculateFantasyPoints
    \/ CleanPlayerGameLogs

SpecCalc == InitCalc /\ [][NextCalc]_vars

-----------------------------------------------------------------------------
(* The program run again on the same database, in full-rebuild mode *)

\* invocations of main in one behaviour
MaxRuns == 2

InitRerun == Init /\ ~team_file.exists

\* python optimize_roster.py once more: every table is computed afresh, the
\* roster printed by the run before is kept for comparison only
MainAgain ==
    /\ pc = "done"
    /\ ~team_file.exists
    /\ rerun.run < MaxRuns
    /\ rerun' = [run |-> rerun.run + 1, previous_roster |-> optimal_roster]
    /\ pc' = "start"
    /\ df' = << >>
    /\ status' = LpStatusNotSolved
    /\ optimal_roster' = << >>
    /\ outcome' = "none"
    /\ UNCHANGED <<all_players, team_file, salary_cap, transactions, current_roster,
                   available_players, players_to_drop, players_to_add, drop_vars, add_vars,
                   totals, solver, calls, scrape, config, update, calc>>

NextRerun ==
    \/ MainGetPlayerData
    \/ MainOptimizeRoster
    \/ MainReport
    \/ MainAgain

SpecRerun == InitRerun /\ [][NextRerun]_vars

-----------------------------------------------------------------------------
(* Vocabulary of the properties: rosters as sets of rows, counted directly *)

\* number of rows of table t among the rows S that satisfy P
CountRows(t, S, P(_)) == Cardinality({i \in S : P(t[i])})

\* sum of a column over the rows S
Total(t, col, S) == LpValue(Column(t, col), S)

\* the rows S of t are a roster under the cap and the limits c
IsValidRoster(t, S, cap, c) ==
    /\ Cardinality(S) = ROSTER_SIZE
    /\ Total(t, "salary", S) <= cap
    /\ CountRows(t, S, LAMBDA r : IsFrontCourt(r.Pos)) = c.front_court_req
    /\ CountRows(t, S, LAMBDA r : IsBackCourt(r.Pos)) = c.back_court_req
    /\ \A i \in S : CountRows(t, S, LAMBDA r : r.Team = t[i].Team) <= c.max_per_team

\* exhaustive search
ValidRosters(t, cap, c) == {S \in SUBSET DOMAIN t : IsValidRoster(t, S, cap, c)}

DistinctPlayers(t, S) == \A i, j \in S : t[i].Player = t[j].Player => i = j

\* optimize_roster has returned to main
RosterReturned == ~team_file.exists /\ pc \in {"report", "done", "crashed"}

\* ... on an input for which a roster exists
FeasibleRosterReturned ==
    RosterReturned /\ ValidRosters(df, salary_cap, RosterConstraints) # {}

\* optimize_team_changes has printed a proposal
ProposalOutput == pc = "done" /\ outcome = "proposal"

ReturnedNames == Column(optimal_roster, "Player")

ReturnedSalary == SumSeq(Column(optimal_roster, "Salary"))

ReturnedPoints == SumSeq(Column(optimal_roster, "Avg_Fantasy_Points"))

ReturnedCount(P(_)) == Cardinality({k \in DOMAIN optimal_roster : P(optimal_roster[k])})

-----------------------------------------------------------------------------
(* C1..C6: full-rebuild mode *)

\* C1: whenever a roster of ten distinct players exists for the candidate table
\* and the cap, the returned roster has exactly 10 rows and no player name
\* appears in it twice.
C1_TenDistinctPlayers ==
    (RosterReturned
        /\ \E S \in ValidRosters(df, salary_cap, RosterConstraints) : DistinctPlayers(df, S))
    => /\ Len(optimal_roster) = ROSTER_SIZE
       /\ \A j, k \in DOMAIN ReturnedNames : ReturnedNames[j] = ReturnedNames[k] => j = k

\* C2: on a feasible input the salaries of the returned roster sum to at most
\* the salary cap passed to the call.
C2_SalaryWithinCap == FeasibleRosterReturned => ReturnedSalary <= salary_cap

\* C2 witness: a roster was returned although ten rows that meet the size,
\* position and team limits and score more exist: only the cap excludes them.
C2_Witness ==
    /\ FeasibleRosterReturned
    /\ \E S \in ValidRosters(df, SumSeq(Column(df, "salary")), RosterConstraints) :
          /\ Total(df, "salary", S) > salary_cap
          /\ Total(df, "avg_fpts", S) > ReturnedPoints

\* C3: on a feasible input exactly front_court_req returned players are front
\* court and exactly back_court_req are back court, a player eligible at both
\* positions counting in both.
C3_PositionQuotasExact ==
    FeasibleRosterReturned
    => /\ ReturnedCount(LAMBDA r : IsFrontCourt(r.Position)) = RosterConstraints.front_court_req
       /\ ReturnedCount(LAMBDA r : IsBackCourt(r.Position)) = RosterConstraints.back_court_req

\* C3 witness: a returned roster holds a player eligible at both positions.
C3_Witness ==
    /\ FeasibleRosterReturned
    /\ ReturnedCount(LAMBDA r : IsFrontCourt(r.Position) /\ IsBackCourt(r.Position)) > 0

\* C4: on a feasible input no team has more than max_per_team players on the
\* returned roster.
C4_TeamCap ==
    FeasibleRosterReturned
    => \A k \in DOMAIN optimal_roster :
          ReturnedCount(LAMBDA r : r.Team = optimal_roster[k].Team)
              <= RosterConstraints.max_per_team

\* C4 witness: a team with more candidates than max_per_team has exactly
\* max_per_team players on the returned roster.
C4_Witness ==
    /\ FeasibleRosterReturned
    /\ \E k \in DOMAIN optimal_roster :
          /\ ReturnedCount(LAMBDA r : r.Team = optimal_roster[k].Team)
                = RosterConstraints.max_per_team
          /\ CountRows(df, DOMAIN df, LAMBDA r : r.Team = optimal_roster[k].Team)
                > RosterConstraints.max_per_team

\* C5: on a feasible input the projected points of the returned roster equal
\* the maximum over all 10-row subsets that satisfy the cap, both position
\* quotas and the team cap.
C5_OptimalValue ==
    FeasibleRosterReturned
    => LET valid == ValidRosters(df, salary_cap, RosterConstraints)
       IN  /\ \A S \in valid : Total(df, "avg_fpts", S) <= ReturnedPoints
           /\ \E S \in valid : Total(df, "avg_fpts", S) = ReturnedPoints

\* C5 witness: a roster was returned where the valid rosters differ in value.
C5_Witness ==
    /\ FeasibleRosterReturned
    /\ \E S \in ValidRosters(df, salary_cap, RosterConstraints) :
          Total(df, "avg_fpts", S) < ReturnedPoints

\* C6: when no 10-row subset satisfies the constraints the caller is told so:
\* the outcome is "infeasible", no roster is handed back and main does not crash.
C6_InfeasibleReported ==
    (RosterReturned /\ ValidRosters(df, salary_cap, RosterConstraints) = {})
    => /\ outcome = "infeasible"
       /\ optimal_roster = << >>
       /\ pc # "crashed"

-----------------------------------------------------------------------------
(* C7..C10: trade mode *)

\* the rows of the roster after the swap, as (table, row) pairs
ResultingRows ==
    {<<"roster", i>> : i \in DOMAIN current_roster \ drop_vars}
        \cup {<<"pool", j>> : j \in add_vars}

ResultingRow(p) == IF p[1] = "roster" THEN current_roster[p[2]] ELSE available_players[p[2]]

\* C7: every output proposal drops as many players as it adds, at most
\* `transactions` of them, and the roster after the swap has 10 players.
C7_DropsEqualAdds ==
    ProposalOutput
    => /\ Len(players_to_drop) = Len(players_to_add)
       /\ Len(players_to_drop) <= transactions
       /\ Cardinality(ResultingRows) = ROSTER_SIZE

\* C8: no row of a protected player is in the drop list of an output proposal.
C8_ProtectedNeverDropped ==
    ProposalOutput
    => \A k \in DOMAIN players_to_drop : players_to_drop[k].Player \notin Range(protected_players)

\* C9: after the swap of an output proposal no team has more than
\* max_per_team players on the roster.
C9_ResultingTeamCap ==
    ProposalOutput
    => \A p \in ResultingRows :
          Cardinality({q \in ResultingRows : ResultingRow(q).Team = ResultingRow(p).Team})
              <= RosterConstraints.max_per_team

\* C10: for every output proposal the salary of the current roster minus the
\* salary of the dropped players plus the salary of the added players is at
\* most the salary cap, and it is the total printed after the changes.
C10_ResultingSalaryWithinCap ==
    ProposalOutput
    => LET after == SumSeq(Column(current_roster, "salary"))
                      - SumSeq(Column(players_to_drop, "Salary"))
                      + SumSeq(Column(players_to_add, "Salary"))
       IN  after <= salary_cap /\ totals.salary_after = after

\* C10 witness: a proposal is output for a roster that was over the cap.
C10_Witness ==
    /\ ProposalOutput
    /\ SumSeq(Column(current_roster, "salary")) > salary_cap
    /\ players_to_drop # << >>

-----------------------------------------------------------------------------
(* C11..C15, C18: trade mode *)

ResultingCount(P(_)) == Cardinality({p \in ResultingRows : P(ResultingRow(p))})

\* C11: for every output proposal the front-court count after the swap equals
\* front_court_req and the back-court count equals back_court_req, whatever
\* the counts of the current roster were.
C11_ResultingPositionQuotas ==
    ProposalOutput
    => /\ ResultingCount(LAMBDA r : IsFrontCourt(r.Pos)) = RosterConstraints.front_court_req
       /\ ResultingCount(LAMBDA r : IsBackCourt(r.Pos)) = RosterConstraints.back_court_req

\* C11 witness: a proposal is output for a roster that had six front-court and
\* four back-court players.
C11_Witness ==
    /\ ProposalOutput
    /\ CountRows(current_roster, DOMAIN current_roster, LAMBDA r : IsFrontCourt(r.Pos))
          # RosterConstraints.front_court_req

\* optimize_team_changes has returned to main
TradeReturned == team_file.exists /\ pc = "done"

NothingOutput ==
    /\ players_to_drop = << >>
    /\ players_to_add = << >>
    /\ drop_vars = {}
    /\ add_vars = {}
    /\ totals = NoTotals

\* C12: a proposal is printed only after the solve ended Optimal; when the
\* model is infeasible the call returns normally, reports "infeasible" and
\* prints no drop list, no add list and no totals.
C12_InfeasibleTradeReported ==
    /\ (team_file.exists /\ status = LpStatusInfeasible)
          => pc = "done" /\ outcome = "infeasible" /\ NothingOutput
    /\ (team_file.exists /\ outcome = "proposal") => status = LpStatusOptimal

\* C12 witness: a trade call on an infeasible model has returned.
C12_Witness == TradeReturned /\ status = LpStatusInfeasible /\ outcome = "infeasible"

\* the pairs (drop, add) the trade constraints allow: equal counts within the
\* transaction limit, the salary cap, both position quotas, at most
\* max_per_team adds and drops per team, no protected player dropped
ValidTrades(roster, pool, cap, limit) ==
    {da \in (SUBSET DOMAIN roster) \X (SUBSET DOMAIN pool) :
        LET D == da[1]
            A == da[2]
            after(P(_)) == CountRows(roster, DOMAIN roster \ D, P) + CountRows(pool, A, P)
        IN  /\ Cardinality(D) <= limit
            /\ Cardinality(D) = Cardinality(A)
            /\ Total(roster, "salary", DOMAIN roster \ D) + Total(pool, "salary", A) <= cap
            /\ after(LAMBDA r : IsFrontCourt(r.Pos)) = RosterConstraints.front_court_req
            /\ after(LAMBDA r : IsBackCourt(r.Pos)) = RosterConstraints.back_court_req
            /\ \A i \in D : CountRows(roster, D, LAMBDA r : r.Team = roster[i].Team)
                               <= RosterConstraints.max_per_team
            /\ \A j \in A : CountRows(pool, A, LAMBDA r : r.Team = pool[j].Team)
                               <= RosterConstraints.max_per_team
            /\ \A i \in D : roster[i].Player \notin Range(protected_players)}

NetPoints(roster, pool, D, A) == Total(pool, "avg_fpts", A) - Total(roster, "avg_fpts", D)

\* C13: the output proposal is one of the pairs the trade constraints allow
\* and no allowed pair has a higher net projected value (exhaustive search).
C13_OptimalTrade ==
    ProposalOutput
    => LET valid == ValidTrades(current_roster, available_players, salary_cap, transactions)
       IN  /\ <<drop_vars, add_vars>> \in valid
           /\ \A da \in valid :
                 NetPoints(current_roster, available_players, da[1], da[2])
                    <= NetPoints(current_roster, available_players, drop_vars, add_vars)

\* load_current_team has been called
TeamLoaded == team_file.exists /\ pc # "start"

NamesOf(t) == Range(Column(t, "Player"))

\* the lines of the file are ten different names and each is a known player
TenKnownPlayers ==
    /\ Len(team_file.names) = ROSTER_SIZE
    /\ Cardinality(Range(team_file.names)) = ROSTER_SIZE
    /\ Range(team_file.names) \subseteq NamesOf(all_players)

\* C14: when the names of the file do not resolve to exactly 10 known players
\* load_current_team fails with a validation error before any model is
\* built; when it returns, the roster holds exactly 10 distinct players.
C14_RosterValidated ==
    TeamLoaded
    => /\ ~TenKnownPlayers => (pc = "error" /\ outcome = "error" /\ status = LpStatusNotSolved)
       /\ pc # "error" => /\ Len(current_roster) = ROSTER_SIZE
                          /\ Cardinality(NamesOf(current_roster)) = ROSTER_SIZE

\* a row that may be offered to the model
Eligible(r) == r.salary > 0 /\ r.Games_Last_30D >= MIN_GAMES

\* C15: in both modes every row handed to the model as a candidate, and so
\* every player selected or added, has salary > 0 and at least 3 recent games.
C15_CandidatesEligible ==
    /\ \A i \in DOMAIN df : Eligible(df[i])
    /\ \A j \in DOMAIN available_players : Eligible(available_players[j])
    /\ \A j \in add_vars : Eligible(available_players[j])

\* C18: the pool holds no player of the current roster; in every output
\* proposal the dropped players are on the roster, the added players are in
\* the pool, and no player is in both lists.
C18_DisjointLists ==
    (team_file.exists /\ pc \in {"trade", "done"})
    => /\ NamesOf(available_players) \cap NamesOf(current_roster) = {}
       /\ NamesOf(players_to_drop) \subseteq NamesOf(current_roster)
       /\ NamesOf(players_to_add) \subseteq NamesOf(available_players)
       /\ NamesOf(players_to_drop) \cap NamesOf(players_to_add) = {}

\* C18 witness: a proposal with a drop and an add is output from a database
\* that holds two rows of one player.
C18_Witness ==
    /\ ProposalOutput
    /\ players_to_drop # << >>
    /\ players_to_add # << >>
    /\ Cardinality(NamesOf(all_players)) < Len(all_players)

-----------------------------------------------------------------------------
(* C17: full-rebuild mode run twice *)

PreviousPoints == SumSeq(Column(rerun.previous_roster, "Avg_Fantasy_Points"))

\* a later run on the same feasible input has returned
RerunReturned == FeasibleRosterReturned /\ rerun.run > 1

-----------------------------------------------------------------------------
(* C19: solver failure *)

\* prob.solve() has been called
SolveAttempted == pc \in {"report", "done", "crashed"}

\* C19: when the solver is unavailable or the solve ends neither optimal nor
\* infeasible, the run ends with the solver's error: the failure is not
\* reported as "infeasible" and no variable value is read as a result.
C19_SolverFailureSurfaced ==
    (solver # "ok" /\ SolveAttempted)
    => /\ pc = "crashed"
       /\ outcome = "solver_error"
       /\ optimal_roster = << >>
       /\ NothingOutput

-----------------------------------------------------------------------------
(* C16: concurrent calls *)

\* C16: of two interleaved calls each one's solve runs with the verbosity its
\* own caller asked for, and each returns a result the call could return alone.
C16_CallsIndependent ==
    \A k \in DOMAIN calls.call :
        calls.call[k].pc = "returned"
        => /\ calls.call[k].verbosity = <<calls.call[k].debug_flag>>
           /\ [status |-> calls.call[k].status, roster |-> calls.call[k].roster]
                \in optimize_roster(get_player_data(all_players), calls.call[k].salary_cap,
                                    RosterConstraints)

-----------------------------------------------------------------------------
(* C20: the scraper *)

\* the rows of player_stats with the given name
RowsOf(table, name) == {i \in DOMAIN table : table[i].Player = name}

\* the names the source table lists with a multi-team row
TradedPlayers(table) == {table[i].Player : i \in {k \in DOMAIN table : StrContainsTM(table[k].Team)}}

\* C20: once the scraped table is saved, every traded player (listed in the
\* source table with a multi-team row and a row per team) has exactly one row
\* in player_stats, whether the lookup of the last team succeeded or not.
C20_OneRowPerPlayer ==
    scrape.pc = "saved"
    => \A name \in TradedPlayers(scrape.source) : Cardinality(RowsOf(scrape.df, name)) = 1

-----------------------------------------------------------------------------
(* C21..C23, C28, C29: the optimizer's frame and configuration *)

\* the rows of table t chosen in S that play for team
OfTeam(t, S, team) == {i \in S : t[i].Team = team}

\* C21: in every output proposal at most max_per_team players of any team are
\* added and at most max_per_team players of any team of the current roster
\* are dropped, also of a team that has no player in the pool.
C21_TeamBoundsOnMoves ==
    ProposalOutput
    => /\ \A team \in Range(Column(available_players, "Team")) :
             Cardinality(OfTeam(available_players, add_vars, team))
                 <= RosterConstraints.max_per_team
       /\ \A team \in Range(Column(current_roster, "Team")) :
             Cardinality(OfTeam(current_roster, drop_vars, team))
                 <= RosterConstraints.max_per_team

\* C22: with current_team.txt only the trade optimizer runs, and only after
\* the roster was validated, and the rebuild optimizer is never invoked;
\* without the file only the rebuild optimizer runs and no roster is read.
C22_ModeSelection ==
    /\ team_file.exists
       => /\ pc \in {"start", "trade", "done", "error"}
          /\ df = << >> /\ optimal_roster = << >>
          /\ outcome \in {"none", "error", "infeasible", "proposal"}
          /\ pc \in {"trade", "done"} => ~load_current_team(all_players, team_file).raised
          /\ pc = "error" => status = LpStatusNotSolved /\ NothingOutput
    /\ ~team_file.exists
       => /\ pc \in {"start", "rebuild", "report", "done", "crashed"}
          /\ current_roster = << >> /\ available_players = << >>
          /\ NothingOutput
          /\ outcome \in {"none", "roster", "error"}

\* C22 witness: the file exists and the trade optimizer has printed a proposal.
C22_Witness ==
    /\ team_file.exists
    /\ ProposalOutput
    /\ add_vars # {}

\* C23: the tables passed to a call are after the call what they were before
\* it, and every row of the roster returned by optimize_roster is a row built
\* by get_selected_players.
C23_InputsUnchanged ==
    /\ RosterReturned
       => /\ df = get_player_data(all_players)
          /\ \A k \in DOMAIN optimal_roster :
                \E i \in DOMAIN df : optimal_roster[k] = SelectedRow(df[i])
    /\ TradeReturned
       => /\ current_roster = load_current_team(all_players, team_file).current_roster
          /\ available_players = AvailablePlayers(all_players, current_roster)

\* C23 witness: optimize_roster has returned ten rows of a larger table.
C23_Witness ==
    /\ RosterReturned
    /\ Len(optimal_roster) = ROSTER_SIZE
    /\ Len(df) > ROSTER_SIZE

\* the loaded roster is within the cap and has both position quotas
RosterItselfValid ==
    /\ SumSeq(Column(current_roster, "salary")) <= salary_cap
    /\ CountRows(current_roster, DOMAIN current_roster, LAMBDA r : IsFrontCourt(r.Pos))
          = RosterConstraints.front_court_req
    /\ CountRows(current_roster, DOMAIN current_roster, LAMBDA r : IsBackCourt(r.Pos))
          = RosterConstraints.back_court_req

\* C28: when the current roster itself satisfies the cap and both quotas a
\* proposal is always output and the total projected points after the
\* changes are at least the total before them.
C28_NeverWorse ==
    (TradeReturned /\ RosterItselfValid)
    => /\ outcome = "proposal"
       /\ status = LpStatusOptimal
       /\ totals.fpts_after >= totals.fpts_before
       /\ NetPoints(current_roster, available_players, drop_vars, add_vars) >= 0

\* C28 witness: a valid roster is improved by a proposal that drops a player.
C28_Witness ==
    /\ TradeReturned
    /\ RosterItselfValid
    /\ drop_vars # {}
    /\ totals.fpts_after > totals.fpts_before

\* the rows of the roster a configured trade call leaves
ConfiguredAfter(P(_)) ==
    CountRows(ConfiguredRoster, DOMAIN ConfiguredRoster \ config.drops, P)
        + CountRows(ConfiguredPool, config.adds, P)

\* C29: the limits a call enforces are those of the RosterConstraints of its
\* caller: the roster of optimize_roster is within constraints.salary_cap, has
\* the configured quotas and team maximum, and the roster a trade proposal
\* leaves has the configured quotas.
C29_LimitsFromConfiguration ==
    /\ (config.pc = "roster_returned" /\ config.status = LpStatusOptimal)
       => /\ SumSeq(Column(config.roster, "Salary")) <= config.constraints.salary_cap
          /\ Cardinality({k \in DOMAIN config.roster : IsFrontCourt(config.roster[k].Position)})
                = config.constraints.front_court_req
          /\ Cardinality({k \in DOMAIN config.roster : IsBackCourt(config.roster[k].Position)})
                = config.constraints.back_court_req
          /\ \A k \in DOMAIN config.roster :
                Cardinality({j \in DOMAIN config.roster :
                                config.roster[j].Team = config.roster[k].Team})
                    <= config.constraints.max_per_team
    /\ config.pc = "trade_returned"
       => /\ ConfiguredAfter(LAMBDA r : IsFrontCourt(r.Pos)) = config.constraints.front_court_req
          /\ ConfiguredAfter(LAMBDA r : IsBackCourt(r.Pos)) = config.constraints.back_court_req

-----------------------------------------------------------------------------
(* C24..C26: get_latest_games *)

\* table starts with the rows of prefix, unchanged and in place
StartsWith(table, prefix) ==
    /\ Len(prefix) <= Len(table)
    /\ SubSeq(table, 1, Len(prefix)) = prefix

\* the rows appended to player_game_logs by the run in progress or just over
AppendedRows == SubSeq(update.table, Len(update.before) + 1, Len(update.table))

\* C24: after any sequence of runs player_game_logs holds no two rows with the
\* same (player_url, game number), and the rows stored at the beginning are
\* still there, unchanged: rows are only appended.
C24_NoDuplicateGames ==
    /\ \A i, j \in DOMAIN update.table :
          (/\ update.table[i].player_url = update.table[j].player_url
           /\ update.table[i].G = update.table[j].G) => i = j
    /\ StartsWith(update.table, update.initial)
    /\ StartsWith(update.table, update.before)

\* C24 witness: two runs have both appended games to a table that was not empty.
C24_Witness ==
    /\ update.pc = "returned"
    /\ update.run > 1
    /\ update.initial # << >>
    /\ Len(update.before) > Len(update.initial)
    /\ Len(update.table) > Len(update.before)

C26_FailureDoesNotAbort ==
    /\ update.pc # "raised"
    /\ update.pc \in {"loop", "returned"}
       => /\ update.processed \o update.remaining = PlayerUrls
          /\ StartsWith(update.table, update.before)
          /\ update.count = Len(AppendedRows)
    /\ update.pc = "returned"
       => /\ update.processed = PlayerUrls
          /\ update.returned = Len(AppendedRows)

\* C26 witness: the second player failed, and the run returned with games
\* appended for the first player and for the third.
C26_Witness ==
    /\ update.pc = "returned"
    /\ update.failed
    /\ update.website[PlayerUrls[2]]
          > Cardinality(ExistingGameNumbers(update.table, PlayerUrls[2]))
    /\ \E i, j \in DOMAIN AppendedRows :
          /\ AppendedRows[i].player_url = PlayerUrls[1]
          /\ AppendedRows[j].player_url = PlayerUrls[3]

\* C27: calculate_fantasy_points never modifies a row that already has both
\* espn_fpts and nba_salary_cap_fpts, and when no row lacks a value the run
\* leaves the whole table as it was.
C27_CompleteRowsUntouched ==
    calc.pc = "calculated" =>
        /\ \A i \in DOMAIN calc.before :
              ~LacksFantasyPoints(calc.before[i]) => calc.table[i] = calc.before[i]
        /\ (\A i \in DOMAIN calc.before : ~LacksFantasyPoints(calc.before[i]))
              => calc.table = calc.before

\* a run has finished on a table that held, for one player, a row with both
\* values and a row still lacking one
C27_Witness ==
    /\ calc.pc = "calculated"
    /\ \E i, j \in DOMAIN calc.before :
          /\ ~LacksFantasyPoints(calc.before[i])
          /\ LacksFantasyPoints(calc.before[j])
          /\ calc.before[i].player_url = calc.before[j].player_url

=============================================================================
